---- MODULE Spec2Model ----
(***************************************************************************)
(* The canonical S-expression utilities of NeoPG's legacy GnuPG code       *)
(* (sexputil.c): the RSA public-key builder and extractor, the sig-val     *)
(* hash extractor, the simple-expression comparator and the libgcrypt      *)
(* bridge functions.  Buffers are sequences of bytes (0..255), pointers    *)
(* are 1-based indices into them and NULL is 0.                            *)
(***************************************************************************)
EXTENDS Integers, Sequences, FiniteSets, TLC

VARIABLES
  op,        \* the entry point this run calls
  pc,        \* position inside that entry point
  input,     \* how the input buffer was put together (for the statements)
  m_arg,     \* make_canon_sexp_from_rsa_pk: modulus bytes
  e_arg,     \* make_canon_sexp_from_rsa_pk: exponent bytes
  built,     \* make_canon_sexp_from_rsa_pk: keybuf, *r_len, allocation
  keydata,   \* the buffer handed to the parser (keydata / sigval / key)
  b_orig,    \* cmp_simple_canon_sexp: the second expression
  junk,      \* the bytes that happen to lie in memory behind a buffer
  x,         \* get_rsa_pk_from_canon_sexp: its locals and results
  h,         \* hash_algo_from_sigval: its locals and result
  g          \* the bridge functions: locals, results, handle accounting

vars == <<op, pc, input, m_arg, e_arg, built, keydata, b_orig, junk, x, h, g>>

----------------------------------------------------------------------------
(* Bytes and text *)

NULL == 0
LPAREN == 40
RPAREN == 41
COLON == 58
DIGIT0 == 48

Max(a, b) == IF a >= b THEN a ELSE b

IsDigit(c) == c >= DIGIT0 /\ c <= DIGIT0 + 9

\* "public-key", "rsa", "sig-val", "hash" as bytes
PublicKeyTag == <<112, 117, 98, 108, 105, 99, 45, 107, 101, 121>>
RsaTag == <<114, 115, 97>>
SigValTag == <<115, 105, 103, 45, 118, 97, 108>>
HashTag == <<104, 97, 115, 104>>
NameN == 110
NameE == 101

\* printf's %u of a value already reduced to unsigned int
RECURSIVE Decimal(_)
Decimal(n) ==
  IF n < 10 THEN <<DIGIT0 + n>>
  ELSE Decimal(n \div 10) \o <<DIGIT0 + (n % 10)>>

\* the value of a run of decimal digits
RECURSIVE DecimalValue(_)
DecimalValue(ds) ==
  IF ds = <<>> THEN 0
  ELSE 10 * DecimalValue(SubSeq(ds, 1, Len(ds) - 1)) + (ds[Len(ds)] - DIGIT0)

\* the bytes p[0..len-1] of a buffer
Bytes(mem, p, len) == SubSeq(mem, p, p + len - 1)

\* number of zero bytes at the front of x[from..]
RECURSIVE LeadingZeros(_, _, _)
LeadingZeros(mem, p, len) ==
  IF len = 0 \/ mem[p] # 0 THEN 0 ELSE 1 + LeadingZeros(mem, p + 1, len - 1)

----------------------------------------------------------------------------
(* make_canon_sexp_from_rsa_pk *)

Part1 == <<LPAREN, 49, 48, COLON>> \o PublicKeyTag \o <<LPAREN, 51, COLON>>
           \o RsaTag \o <<LPAREN, 49, COLON, NameN>>
Part2 == <<RPAREN, LPAREN, 49, COLON, NameE>>
Part3 == <<RPAREN, RPAREN, RPAREN>>

\* snprintf (str, sizeof str, "%u:", (unsigned int)len + extra).  The cast
\* changes nothing below 2^32 bytes, far above any length reached here.
LenStr(len, extra) == Decimal(len + extra) \o <<COLON>>

\* the extra leading zero: the number would be zero or read as negative
NoExtraForEmpty(v) == IF v # <<>> /\ v[1] >= 128 THEN 1 ELSE 0
Extra(v) == IF v = <<>> \/ v[1] >= 128 THEN 1 ELSE 0

\* for (; mlen && !*m; mlen--, m++) ;
RemoveLeadingZeroes(v) == SubSeq(v, LeadingZeros(v, 1, Len(v)) + 1, Len(v))

\* A write cursor: the bytes before p and the highest offset written so far.
\* stpcpy also writes the terminating NUL, one byte behind the text.
Stpcpy(w, str) == [bytes |-> w.bytes \o str,
                   hi |-> Max(w.hi, Len(w.bytes) + Len(str) + 1)]
Memcpy(w, data) == [bytes |-> w.bytes \o data,
                    hi |-> Max(w.hi, Len(w.bytes) + Len(data))]

AllocSizeNoNul(m, m_extra, mlen_str, e, e_extra, elen_str) ==
  Len(Part1) + Len(mlen_str) + Len(m) + m_extra
  + Len(Part2) + Len(elen_str) + Len(e) + e_extra + Len(Part3)
AllocSize(m, m_extra, mlen_str, e, e_extra, elen_str) ==
  Len(Part1) + Len(mlen_str) + Len(m) + m_extra
  + Len(Part2) + Len(elen_str) + Len(e) + e_extra + Len(Part3) + 1

make_canon_sexp_from_rsa_pk(marg, earg) ==
  LET m == RemoveLeadingZeroes(marg)
      e == RemoveLeadingZeroes(earg)
      m_extra == Extra(m)
      e_extra == Extra(e)
      mlen_str == LenStr(Len(m), m_extra)
      elen_str == LenStr(Len(e), e_extra)
      w0 == [bytes |-> <<>>, hi |-> 0]
      w1 == Stpcpy(w0, Part1)
      w2 == Stpcpy(w1, mlen_str)
      w3 == IF m_extra = 1 THEN Memcpy(w2, <<0>>) ELSE w2
      w4 == Memcpy(w3, m)
      w5 == Stpcpy(w4, Part2)
      w6 == Stpcpy(w5, elen_str)
      w7 == IF e_extra = 1 THEN Memcpy(w6, <<0>>) ELSE w6
      w8 == Memcpy(w7, e)
      w9 == Stpcpy(w8, Part3)
  IN [ok |-> TRUE,
      keybuf |-> w9.bytes,
      r_len |-> Len(w9.bytes),
      alloc |-> AllocSize(m, m_extra, mlen_str, e, e_extra, elen_str),
      hi |-> w9.hi]

\* xtrymalloc failed: return NULL
NoBuffer == [ok |-> FALSE, keybuf |-> <<>>, r_len |-> 0, alloc |-> 0, hi |-> 0]

----------------------------------------------------------------------------
(* The tokenizer of sexp-parse.h, as section 4.1 of the specification      *)
(* describes it: parse_sexp (&buf, &buflen, &depth, &tok, &toklen).        *)

GPG_ERR_NO_ERROR == "GPG_ERR_NO_ERROR"
GPG_ERR_INV_SEXP == "GPG_ERR_INV_SEXP"
GPG_ERR_BAD_PUBKEY == "GPG_ERR_BAD_PUBKEY"
GPG_ERR_WRONG_PUBKEY_ALGO == "GPG_ERR_WRONG_PUBKEY_ALGO"
GPG_ERR_UNKNOWN_SEXP == "GPG_ERR_UNKNOWN_SEXP"
GPG_ERR_DUP_VALUE == "GPG_ERR_DUP_VALUE"

\* how many of the n bytes at mem[s..] are decimal digits, from the front
RECURSIVE DigitRun(_, _, _)
DigitRun(mem, s, n) ==
  IF n = 0 \/ ~IsDigit(mem[s]) THEN 0 ELSE 1 + DigitRun(mem, s + 1, n - 1)

parse_sexp(mem, c) ==
  LET s == c.buf
      n == c.buflen
      z == [c EXCEPT !.tok = NULL, !.toklen = 0, !.err = GPG_ERR_NO_ERROR]
      bad == [z EXCEPT !.err = GPG_ERR_INV_SEXP]
  IN IF n = 0
       THEN IF c.depth # 0 THEN bad ELSE z
     ELSE IF mem[s] = LPAREN
       THEN [z EXCEPT !.buf = s + 1, !.buflen = n - 1, !.depth = c.depth + 1]
     ELSE IF mem[s] = RPAREN
       THEN IF c.depth = 0 THEN bad
            ELSE [z EXCEPT !.buf = s + 1, !.buflen = n - 1, !.depth = c.depth - 1]
     ELSE LET k == DigitRun(mem, s, n)
          IN IF k = 0 \/ k = n \/ mem[s + k] # COLON THEN bad
             ELSE LET len == DecimalValue(Bytes(mem, s, k))
                  IN IF len > n - k - 1 THEN bad
                     ELSE [z EXCEPT !.tok = s + k + 1, !.toklen = len,
                                    !.buf = s + k + 1 + len,
                                    !.buflen = n - k - 1 - len]

----------------------------------------------------------------------------
(* get_rsa_pk_from_canon_sexp *)

\* The locals on entry.  rsa_n_len, rsa_e_len and the last_depth variables
\* are uninitialized in the source; they are written before they are read.
ExtractEntry(mem) ==
  [buf |-> 1, buflen |-> Len(mem), depth |-> 0, tok |-> NULL, toklen |-> 0,
   err |-> GPG_ERR_NO_ERROR, last_depth1 |-> 0, last_depth2 |-> 0,
   rsa_n |-> NULL, rsa_n_len |-> 0, rsa_e |-> NULL, rsa_e_len |-> 0,
   r_n |-> NULL, r_nlen |-> 0, r_e |-> NULL, r_elen |-> 0,
   ret |-> GPG_ERR_NO_ERROR, returned |-> FALSE,
   skipped |-> FALSE, open_depth |-> 0]

Return(c, e) == [c EXCEPT !.ret = e, !.returned = TRUE, !.skipped = FALSE]

\* !tok || toklen != strlen (tag) || memcmp (tag, tok, toklen)
AnyToken(mem, c, tag) == c.tok # NULL
IsToken(mem, c, tag) ==
  c.tok # NULL /\ c.toklen = Len(tag) /\ Bytes(mem, c.tok, c.toklen) = tag

\* lines 517-533: the outer shape
ExtractHeader(mem, c0) ==
  LET c1 == parse_sexp(mem, c0) IN
  IF c1.err # GPG_ERR_NO_ERROR THEN Return(c1, c1.err) ELSE
  LET c2 == parse_sexp(mem, c1) IN
  IF c2.err # GPG_ERR_NO_ERROR THEN Return(c2, c2.err) ELSE
  IF ~IsToken(mem, c2, PublicKeyTag) THEN Return(c2, GPG_ERR_BAD_PUBKEY) ELSE
  LET c3 == parse_sexp(mem, c2) IN
  IF c3.err # GPG_ERR_NO_ERROR THEN Return(c3, c3.err) ELSE
  LET c4 == parse_sexp(mem, c3) IN
  IF c4.err # GPG_ERR_NO_ERROR THEN Return(c4, c4.err) ELSE
  IF ~IsToken(mem, c4, RsaTag) THEN Return(c4, GPG_ERR_WRONG_PUBKEY_ALGO) ELSE
  [c4 EXCEPT !.last_depth1 = c4.depth]

\* lines 559-563: strip off leading zero bytes and save
KeepLeadingZeros(mem, c, mpi) ==
  IF mpi = NameN
    THEN [c EXCEPT !.rsa_n = c.tok, !.rsa_n_len = c.toklen]
    ELSE [c EXCEPT !.rsa_e = c.tok, !.rsa_e_len = c.toklen]
SaveMpi(mem, c, mpi) ==
  LET z == LeadingZeros(mem, c.tok, c.toklen)
  IN IF mpi = NameN
       THEN [c EXCEPT !.tok = c.tok + z, !.toklen = c.toklen - z,
                      !.rsa_n = c.tok + z, !.rsa_n_len = c.toklen - z]
       ELSE [c EXCEPT !.tok = c.tok + z, !.toklen = c.toklen - z,
                      !.rsa_e = c.tok + z, !.rsa_e_len = c.toklen - z]

\* lines 541-565: a one-byte name, and the value behind it
ExtractNamed(mem, c2) ==
  LET name == mem[c2.tok]
      mpi == IF name = NameN \/ name = NameE THEN name ELSE NULL
  IN IF (mpi = NameN /\ c2.rsa_n # NULL) \/ (mpi = NameE /\ c2.rsa_e # NULL)
       THEN Return(c2, GPG_ERR_DUP_VALUE)
     ELSE LET c3 == parse_sexp(mem, c2)
          IN IF c3.err # GPG_ERR_NO_ERROR THEN Return(c3, c3.err)
             ELSE IF c3.tok # NULL /\ mpi # NULL THEN SaveMpi(mem, c3, mpi)
             ELSE c3

\* lines 567-571: skip to the end of the list
RECURSIVE SkipToEnd(_, _)
SkipToEnd(mem, c) ==
  LET c1 == parse_sexp(mem, c)
  IN IF c1.err = GPG_ERR_NO_ERROR /\ c1.depth # 0 /\ c1.depth >= c.last_depth2
       THEN SkipToEnd(mem, c1)
       ELSE c1

\* lines 534-574: the loop condition and one pass through the loop body.
\* "looping" tells whether the loop goes on; skipped and open_depth record
\* that the pass skipped to the end of a list, and the depth the cursor had
\* before the pass consumed the opening parenthesis.
ExtractSibling(mem, c) ==
  LET c1 == [parse_sexp(mem, c) EXCEPT !.skipped = FALSE] IN
  IF ~(c1.err = GPG_ERR_NO_ERROR /\ c1.depth # 0 /\ c1.depth >= c.last_depth1)
    THEN [looping |-> FALSE, c |-> c1] ELSE
  IF c1.tok # NULL
    THEN [looping |-> FALSE, c |-> Return(c1, GPG_ERR_UNKNOWN_SEXP)] ELSE
  LET c2 == parse_sexp(mem, c1) IN
  IF c2.err # GPG_ERR_NO_ERROR
    THEN [looping |-> FALSE, c |-> Return(c2, c2.err)] ELSE
  LET c3 == IF c2.tok # NULL /\ c2.toklen = 1 THEN ExtractNamed(mem, c2) ELSE c2 IN
  IF c3.returned THEN [looping |-> FALSE, c |-> c3] ELSE
  LET c4 == SkipToEnd(mem, [c3 EXCEPT !.last_depth2 = c3.depth]) IN
  IF c4.err # GPG_ERR_NO_ERROR
    THEN [looping |-> FALSE, c |-> Return(c4, c4.err)]
    ELSE [looping |-> TRUE,
          c |-> [c4 EXCEPT !.skipped = TRUE, !.open_depth = c.depth]]

\* lines 576-586
ExtractFinish(c) ==
  IF c.err # GPG_ERR_NO_ERROR THEN Return(c, c.err)
  ELSE IF c.rsa_n = NULL \/ c.rsa_n_len = 0 \/ c.rsa_e = NULL \/ c.rsa_e_len = 0
    THEN Return(c, GPG_ERR_BAD_PUBKEY)
  ELSE [c EXCEPT !.r_n = c.rsa_n, !.r_nlen = c.rsa_n_len,
                 !.r_e = c.rsa_e, !.r_elen = c.rsa_e_len,
                 !.ret = GPG_ERR_NO_ERROR, !.returned = TRUE, !.skipped = FALSE]

\* the whole call, for comparing two inputs
RECURSIVE ExtractLoop(_, _)
ExtractLoop(mem, c) ==
  LET r == ExtractSibling(mem, c)
  IN IF r.looping THEN ExtractLoop(mem, r.c)
     ELSE IF r.c.returned THEN r.c ELSE ExtractFinish(r.c)

get_rsa_pk_from_canon_sexp(mem) ==
  LET c == ExtractHeader(mem, ExtractEntry(mem))
  IN IF c.returned THEN c ELSE ExtractLoop(mem, c)

\* what the caller receives: the error code and the two byte strings
ExtractResult(mem, c) ==
  [ret |-> c.ret,
   n |-> IF c.r_n = NULL THEN <<>> ELSE Bytes(mem, c.r_n, c.r_nlen),
   e |-> IF c.r_e = NULL THEN <<>> ELSE Bytes(mem, c.r_e, c.r_elen)]

----------------------------------------------------------------------------
(* Functions that take a bare pointer.  The memory they walk is the buffer *)
(* followed by whatever lies behind it (junk, then zero bytes); "hi" is    *)
(* the highest index read so far, so hi > Len(buffer) is a read past the   *)
(* end of the buffer.                                                      *)

Rd(M, i) == IF i <= Len(M) THEN M[i] ELSE 0

RECURSIVE DigitsAt(_, _)
DigitsAt(M, s) == IF IsDigit(Rd(M, s)) THEN 1 + DigitsAt(M, s + 1) ELSE 0

\* snext (&s) of sexp-parse.h: the length of the data token at s, with s
\* moved behind the colon; 0 when there is no length or it is zero
snext(M, s, hi) ==
  LET k == DigitsAt(M, s)
      n == DecimalValue([i \in 1..k |-> Rd(M, s + i - 1)])
  IN IF n = 0 \/ Rd(M, s + k) # COLON
       THEN [n |-> 0, s |-> s, hi |-> Max(hi, s + k)]
       ELSE [n |-> n, s |-> s + k + 1, hi |-> Max(hi, s + k)]

\* sskip (&s, &depth) of sexp-parse.h: skip to the end of the list
RECURSIVE sskip(_, _, _, _)
sskip(M, s, d, hi) ==
  IF d <= 0 THEN [err |-> FALSE, s |-> s, depth |-> d, hi |-> hi]
  ELSE IF Rd(M, s) = LPAREN THEN sskip(M, s + 1, d + 1, Max(hi, s))
  ELSE IF Rd(M, s) = RPAREN THEN sskip(M, s + 1, d - 1, Max(hi, s))
  ELSE LET t == snext(M, s, Max(hi, s))
       IN IF t.n = 0 THEN [err |-> TRUE, s |-> s, depth |-> d, hi |-> t.hi]
          ELSE sskip(M, t.s + t.n, d, t.hi)

\* number of bytes at M[s..] that agree with token, from the front
RECURSIVE CommonPrefix(_, _, _, _)
CommonPrefix(M, s, token, i) ==
  IF i > Len(token) \/ Rd(M, s + i - 1) # token[i] THEN 0
  ELSE 1 + CommonPrefix(M, s, token, i + 1)

\* smatch (&s, n, token) of sexp-parse.h: memcmp reads up to the first
\* byte that differs
smatch(M, s, n, token) ==
  IF n # Len(token) THEN [ok |-> FALSE, s |-> s, last |-> 0]
  ELSE LET c == CommonPrefix(M, s, token, 1)
       IN IF c = Len(token) THEN [ok |-> TRUE, s |-> s + c, last |-> s + c - 1]
          ELSE [ok |-> FALSE, s |-> s, last |-> s + c]

\* a C string: the bytes before the first NUL
RECURSIVE CString(_)
CString(b) == IF b = <<>> \/ b[1] = 0 THEN <<>> ELSE <<b[1]>> \o CString(Tail(b))

\* gcry_md_map_name of libgcrypt: the identifier of a hash name, 0 if unknown
NameMd5 == <<109, 100, 53>>
NameSha1 == <<115, 104, 97, 49>>
NameSha256 == <<115, 104, 97, 50, 53, 54>>
gcry_md_map_name(name) ==
  IF name = NameMd5 THEN 1
  ELSE IF name = NameSha1 THEN 2
  ELSE IF name = NameSha256 THEN 8
  ELSE 0

\* char buffer[50]
BufferSize == 50

\* line 423: if (!n || n+1 >= sizeof (buffer)) return 0;
AnyNameLength(n) == n = 0
NameRejected(n) == n = 0 \/ n + 1 >= BufferSize

\* what hash_algo_from_sigval hands back: the value, the highest index it
\* read, whether it asked the registry and with which string, and the depth
\* sskip left (-1: sskip was not reached)
HashOut(ret, hi, asked, name, d) ==
  [returned |-> TRUE, ret |-> ret, hi |-> hi, asked |-> asked, buffer |-> name,
   skip_depth |-> d, aborted |-> FALSE]

hash_algo_from_sigval(M) ==
  IF Rd(M, 1) # LPAREN THEN HashOut(0, 1, FALSE, <<>>, -1) ELSE
  LET t1 == snext(M, 2, 1) IN
  IF t1.n = 0 THEN HashOut(0, t1.hi, FALSE, <<>>, -1) ELSE
  LET m1 == smatch(M, t1.s, t1.n, SigValTag)
      hi1 == Max(t1.hi, m1.last) IN
  IF ~m1.ok THEN HashOut(0, hi1, FALSE, <<>>, -1) ELSE
  LET hi2 == Max(hi1, m1.s) IN
  IF Rd(M, m1.s) # LPAREN THEN HashOut(0, hi2, FALSE, <<>>, -1) ELSE
  LET k == sskip(M, m1.s + 1, 1, hi2) IN
  IF k.err \/ k.depth # 0 THEN HashOut(0, k.hi, FALSE, <<>>, k.depth) ELSE
  LET hi3 == Max(k.hi, k.s) IN
  IF Rd(M, k.s) # LPAREN THEN HashOut(0, hi3, FALSE, <<>>, k.depth) ELSE
  LET t2 == snext(M, k.s + 1, hi3) IN
  IF t2.n = 0 THEN HashOut(0, t2.hi, FALSE, <<>>, k.depth) ELSE
  LET m2 == smatch(M, t2.s, t2.n, HashTag)
      hi4 == Max(t2.hi, m2.last) IN
  IF ~m2.ok THEN HashOut(0, hi4, FALSE, <<>>, k.depth) ELSE
  LET t3 == snext(M, m2.s, hi4) IN
  IF NameRejected(t3.n) THEN HashOut(0, t3.hi, FALSE, <<>>, k.depth) ELSE
  LET buffer == [i \in 1..t3.n |-> Rd(M, t3.s + i - 1)] \o <<0>>
  IN HashOut(gcry_md_map_name(CString(buffer)), Max(t3.hi, t3.s + t3.n - 1),
             TRUE, CString(buffer), k.depth)

----------------------------------------------------------------------------
(* cmp_simple_canon_sexp *)

NullPtr == <<-1>>

\* strtoul (s, &endp, 10) on text that starts with neither white space nor
\* a sign: the digits at s, endp behind them (at s when there are none)
Strtoul(M, s) ==
  LET k == DigitsAt(M, s)
  IN [val |-> DecimalValue([i \in 1..k |-> Rd(M, s + i - 1)]),
      endp |-> s + k, last |-> s + k]

CmpOut(ret, hia, hib, bug) ==
  [returned |-> TRUE, ret |-> ret, hi |-> hia, hi_b |-> hib, aborted |-> bug]

\* for (a++, b++; n1; n1--, a++, b++) if (*a != *b) return 1;
RECURSIVE CmpBytes(_, _, _, _, _)
CmpBytes(A, B, a, b, n) ==
  IF n = 0 THEN CmpOut(0, a - 1, b - 1, FALSE)
  ELSE IF Rd(A, a) # Rd(B, b) THEN CmpOut(1, a, b, FALSE)
  ELSE CmpBytes(A, B, a + 1, b + 1, n - 1)

cmp_simple_canon_sexp(a_bytes, b_bytes, behind) ==
  IF a_bytes = NullPtr /\ b_bytes = NullPtr THEN CmpOut(0, 0, 0, FALSE) ELSE
  IF a_bytes = NullPtr \/ b_bytes = NullPtr THEN CmpOut(1, 0, 0, FALSE) ELSE
  LET A == a_bytes \o behind
      B == b_bytes \o behind IN
  IF Rd(A, 1) # LPAREN THEN CmpOut(0, 1, 0, TRUE) ELSE
  IF Rd(B, 1) # LPAREN THEN CmpOut(0, 1, 1, TRUE) ELSE
  LET n1 == Strtoul(A, 2)
      n2 == Strtoul(B, 2) IN
  IF Rd(A, n1.endp) # COLON THEN CmpOut(0, n1.endp, n2.last, TRUE) ELSE
  IF Rd(B, n2.endp) # COLON THEN CmpOut(0, n1.endp, n2.endp, TRUE) ELSE
  IF n1.val # n2.val THEN CmpOut(1, n1.endp, n2.endp, FALSE) ELSE
  CmpBytes(A, B, n1.endp + 1, n2.endp + 1, n1.val)

----------------------------------------------------------------------------
(* The bridge to libgcrypt: keygrip_from_canon_sexp, get_pk_algo_from_key, *)
(* get_pk_algo_from_canon_sexp, canon_sexp_to_string.  The library's       *)
(* parsed objects are opaque: what a query on one returns is any of the    *)
(* answers the library can give.  Handles are named after the variable     *)
(* that receives them; "key" is the caller's handle.                       *)

GPG_ERR_INV_VALUE == "GPG_ERR_INV_VALUE"
GPG_ERR_INTERNAL == "GPG_ERR_INTERNAL"
GPG_ERR_ENOMEM == "GPG_ERR_ENOMEM"
\* what gcry_sexp_sscan reports for bytes that are no S-expression
InvalidSexp == "GPG_ERR_SEXP (InvalidSexp)"

NoHandle == "NULL"
Handles == {"sexp", "list", "l1", "key"}

GCRY_PK_RSA == 1
GCRY_PK_ECC == 18
GCRY_PK_EDDSA == 303
AlgoNameSize == 6

\* the first complete list of a buffer: the number of bytes it takes, 0 when
\* the buffer does not start with one (gcry_sexp_canon_len)
RECURSIVE ListEnd(_, _)
ListEnd(mem, c) ==
  LET c1 == parse_sexp(mem, c)
  IN IF c1.err # GPG_ERR_NO_ERROR \/ c1.buf = c.buf THEN 0
     ELSE IF c1.depth = 0 THEN c1.buf - 1
     ELSE ListEnd(mem, c1)
gcry_sexp_canon_len(mem) ==
  IF mem = <<>> \/ mem[1] # LPAREN THEN 0
  ELSE ListEnd(mem, [buf |-> 1, buflen |-> Len(mem), depth |-> 0,
                     tok |-> NULL, toklen |-> 0, err |-> GPG_ERR_NO_ERROR])

\* gcry_sexp_sscan: bytes that are no complete S-expression are refused; a
\* complete one is parsed unless memory runs out
gcry_sexp_sscan(mem) ==
  IF mem # <<>> /\ gcry_sexp_canon_len(mem) = Len(mem)
    THEN {GPG_ERR_NO_ERROR, GPG_ERR_ENOMEM}
    ELSE {InvalidSexp}

BridgeEntry(grip, key) ==
  [returned |-> FALSE, aborted |-> FALSE, grip |-> grip, err |-> GPG_ERR_NO_ERROR,
   algo |-> 0, result |-> "NULL", sexp |-> NoHandle, list |-> NoHandle,
   l1 |-> NoHandle, key |-> key, i |-> 0, acquired |-> {},
   rel |-> [hnd \in Handles |-> 0]]

Acquire(f, hnd) == [f EXCEPT !.acquired = @ \cup {hnd}]
\* gcry_sexp_release: nothing happens for a NULL handle
gcry_sexp_release(f, hnd) ==
  IF hnd = NoHandle THEN f ELSE [f EXCEPT !.rel[hnd] = @ + 1]

\* line 298 / line 165 / line 652: gcry_sexp_release (sexp)
LeakSexp(f) == f
ReleaseSexp(f) == gcry_sexp_release(f, f.sexp)
\* line 629: gcry_sexp_release (l1)
ReleaseFlags(f) == gcry_sexp_release(f, f.l1)
\* line 633: gcry_sexp_release (list)
ReleaseKeyToo(f) == gcry_sexp_release(gcry_sexp_release(f, f.list), f.key)
ReleaseList(f) == gcry_sexp_release(f, f.list)

BridgeUnchanged == UNCHANGED <<op, input, m_arg, e_arg, built, keydata, b_orig, junk, x, h>>

\* keygrip_from_canon_sexp, lines 291-295
KeygripScan ==
  /\ op = "keygrip_from_canon_sexp" /\ pc = "call"
  /\ IF ~g.grip
       THEN g' = [g EXCEPT !.err = GPG_ERR_INV_VALUE, !.returned = TRUE] /\ pc' = "done"
       ELSE \E e \in gcry_sexp_sscan(keydata) :
              IF e # GPG_ERR_NO_ERROR
                THEN g' = [g EXCEPT !.err = e, !.returned = TRUE] /\ pc' = "done"
                ELSE g' = Acquire([g EXCEPT !.sexp = "sexp", !.err = e], "sexp")
                     /\ pc' = "keygrip"
  /\ BridgeUnchanged

\* keygrip_from_canon_sexp, lines 296-299
KeygripGrip ==
  /\ pc = "keygrip"
  /\ \E got \in BOOLEAN :
       g' = [ReleaseSexp([g EXCEPT !.err = IF got THEN @ ELSE GPG_ERR_INTERNAL])
               EXCEPT !.returned = TRUE]
  /\ pc' = "done"
  /\ BridgeUnchanged

\* canon_sexp_to_string, lines 159-163
StringScan ==
  /\ op = "canon_sexp_to_string" /\ pc = "call"
  /\ IF gcry_sexp_canon_len(keydata) = 0
       THEN g' = [g EXCEPT !.returned = TRUE] /\ pc' = "done"
       ELSE \E e \in gcry_sexp_sscan(Bytes(keydata, 1, gcry_sexp_canon_len(keydata))) :
              IF e # GPG_ERR_NO_ERROR
                THEN g' = [g EXCEPT !.returned = TRUE] /\ pc' = "done"
                ELSE g' = Acquire([g EXCEPT !.sexp = "sexp"], "sexp") /\ pc' = "print"
  /\ BridgeUnchanged

\* canon_sexp_to_string, lines 164-166, with sexp_to_string (lines 128-147):
\* no length, no memory, BUG () when the second print yields nothing, or
\* the string
StringPrint ==
  /\ pc = "print"
  /\ \E out \in {"nolength", "nomemory", "bug", "string"} :
       IF out = "bug"
         THEN g' = [g EXCEPT !.aborted = TRUE] /\ pc' = "aborted"
         ELSE g' = [ReleaseSexp([g EXCEPT !.result =
                                   IF out = "string" THEN "string" ELSE "NULL"])
                      EXCEPT !.returned = TRUE]
              /\ pc' = "done"
  /\ BridgeUnchanged

\* get_pk_algo_from_canon_sexp, lines 648-651
AlgoScan ==
  /\ op = "get_pk_algo_from_canon_sexp" /\ pc = "call"
  /\ \E e \in gcry_sexp_sscan(keydata) :
       IF e # GPG_ERR_NO_ERROR
         THEN g' = [g EXCEPT !.returned = TRUE] /\ pc' = "done"
         ELSE g' = Acquire([g EXCEPT !.sexp = "sexp", !.key = "sexp"], "sexp")
              /\ pc' = "key"
  /\ BridgeUnchanged

MaxFlags == 3

\* get_pk_algo_from_key, lines 600-617: the algorithm list, its name, the
\* mapped algorithm and, for ECC, the flags list and the loop's first index
KeyLookup ==
  /\ \/ op = "get_pk_algo_from_key" /\ pc = "call"
     \/ pc = "key"
  /\ \E ans \in {"nolist", "nodata", "toolong", "unknown", "rsa", "ecc"} :
       IF ans = "nolist" THEN g' = [g EXCEPT !.algo = 0] /\ pc' = "out"
       ELSE LET f == Acquire([g EXCEPT !.list = "list", !.algo = 0], "list")
            IN IF ans \in {"nodata", "toolong", "unknown"} THEN g' = f /\ pc' = "out"
               ELSE IF ans = "rsa"
                 THEN g' = [f EXCEPT !.algo = GCRY_PK_RSA] /\ pc' = "out"
               ELSE \E len \in 0..(MaxFlags + 1) :
                      \* len = 0: gcry_sexp_find_token found no flags list
                      /\ g' = IF len = 0 THEN [f EXCEPT !.algo = GCRY_PK_ECC, !.i = 0]
                              ELSE Acquire([f EXCEPT !.algo = GCRY_PK_ECC, !.l1 = "l1",
                                                     !.i = len - 1], "l1")
                      /\ pc' = IF len > 1 THEN "flags" ELSE "flags_done"
  /\ BridgeUnchanged

\* get_pk_algo_from_key, lines 617-628: one pass of the loop over the flags
KeyFlag ==
  /\ pc = "flags"
  /\ \E item \in {"nodata", "other", "eddsa"} :
       IF item = "eddsa"
         THEN g' = [g EXCEPT !.algo = GCRY_PK_EDDSA] /\ pc' = "flags_done"
         ELSE g' = [g EXCEPT !.i = @ - 1]
              /\ pc' = IF g.i - 1 > 0 THEN "flags" ELSE "flags_done"
  /\ BridgeUnchanged

\* get_pk_algo_from_key, line 629
KeyFlagsDone ==
  /\ pc = "flags_done"
  /\ g' = ReleaseFlags(g)
  /\ pc' = "out"
  /\ BridgeUnchanged

\* get_pk_algo_from_key, lines 632-635
KeyOut ==
  /\ pc = "out"
  /\ IF op = "get_pk_algo_from_key"
       THEN g' = [ReleaseList(g) EXCEPT !.returned = TRUE] /\ pc' = "done"
       ELSE g' = ReleaseList(g) /\ pc' = "key_done"
  /\ BridgeUnchanged

\* get_pk_algo_from_canon_sexp, lines 652-653
AlgoRelease ==
  /\ pc = "key_done"
  /\ g' = [ReleaseSexp(g) EXCEPT !.returned = TRUE]
  /\ pc' = "done"
  /\ BridgeUnchanged

NextKeygrip == KeygripScan \/ KeygripGrip
NextBridge ==
  \/ NextKeygrip
  \/ StringScan \/ StringPrint
  \/ AlgoScan \/ AlgoRelease
  \/ KeyLookup \/ KeyFlag \/ KeyFlagsDone \/ KeyOut

----------------------------------------------------------------------------
(* Inputs: canonical S-expressions put together from tokens and lists *)

Tok(b) == Decimal(Len(b)) \o <<COLON>> \o b
Lst(b) == <<LPAREN>> \o b \o <<RPAREN>>

RECURSIVE Concat(_)
Concat(ss) == IF ss = <<>> THEN <<>> ELSE Head(ss) \o Concat(Tail(ss))

\* MPI inputs: z zero bytes, then k bytes that start with a given first byte
MaxZeros == 2
MaxBody == 10
MaxShort == 2
FirstBytes == {1, 127, 128}
Filler == <<0, 58, 255, 41, 49>>
Mpi(z, first, k) ==
  [i \in 1..(z + k) |->
     IF i <= z THEN 0 ELSE IF i = z + 1 THEN first ELSE Filler[(i % 5) + 1]]
Mpis(maxk) ==
  {Mpi(z, f, k) : z \in 0..MaxZeros, f \in FirstBytes, k \in 0..maxk}

\* The siblings of the algorithm list that the key inputs are made of.
\* name: the name token (<<>> when the list is empty); kind: what follows
\* the name (none, tok: a data token, list: a nested list); value: the
\* bytes of that data token.
ValA == <<65, 66>>
ValB == <<1, 0, 1>>
Shapes == <<
  [name |-> <<NameN>>, kind |-> "tok", value |-> ValA,
   bytes |-> Lst(Tok(<<NameN>>) \o Tok(ValA))],
  [name |-> <<NameE>>, kind |-> "tok", value |-> ValB,
   bytes |-> Lst(Tok(<<NameE>>) \o Tok(ValB))],
  [name |-> <<NameN>>, kind |-> "tok", value |-> <<0, 0>>,
   bytes |-> Lst(Tok(<<NameN>>) \o Tok(<<0, 0>>))],
  [name |-> <<NameN>>, kind |-> "list", value |-> <<>>,
   bytes |-> Lst(Tok(<<NameN>>) \o Lst(Tok(<<97>>)))],
  [name |-> <<NameN>>, kind |-> "none", value |-> <<>>,
   bytes |-> Lst(Tok(<<NameN>>))],
  [name |-> <<120>>, kind |-> "tok", value |-> <<121>>,
   bytes |-> Lst(Tok(<<120>>) \o Tok(<<121>>) \o Tok(<<122>>))],
  [name |-> <<120>>, kind |-> "list", value |-> <<>>,
   bytes |-> Lst(Tok(<<120>>) \o Lst(Tok(<<97>>)))],
  [name |-> <<120>>, kind |-> "none", value |-> <<>>,
   bytes |-> Lst(Tok(<<120>>))],
  [name |-> <<102, 111, 111>>, kind |-> "list", value |-> <<>>,
   bytes |-> Lst(Tok(<<102, 111, 111>>) \o Lst(Tok(<<97>>) \o Lst(Tok(<<98>>)))
                 \o Tok(<<99>>))],
  [name |-> <<110, 110>>, kind |-> "tok", value |-> <<0, 200>>,
   bytes |-> Lst(Tok(<<110, 110>>) \o Tok(<<0, 200>>))],
  [name |-> <<>>, kind |-> "none", value |-> <<>>,
   bytes |-> Lst(<<>>)] >>

MaxSibs == 4
SibLists == UNION {[1..k -> 1..Len(Shapes)] : k \in 0..MaxSibs}

\* what stands before and behind the siblings
Heads == <<
  <<LPAREN>> \o Tok(PublicKeyTag) \o <<LPAREN>> \o Tok(RsaTag),
  <<LPAREN>> \o Tok(PublicKeyTag) \o Tok(<<121>>) \o Tok(RsaTag),
  Tok(<<121>>) \o Tok(PublicKeyTag) \o <<LPAREN>> \o Tok(RsaTag),
  Tok(PublicKeyTag) \o <<LPAREN>> \o Tok(RsaTag),
  <<LPAREN>> \o Tok(<<112, 117, 98>>) \o <<LPAREN>> \o Tok(RsaTag),
  <<LPAREN>> \o Tok(PublicKeyTag) \o <<LPAREN>> \o Tok(<<100, 115, 97>>),
  <<LPAREN>> \o Tok(PublicKeyTag) \o <<LPAREN, LPAREN>> \o Tok(RsaTag),
  <<RPAREN>> \o Tok(PublicKeyTag) \o <<LPAREN>> \o Tok(RsaTag) >>
ProperHead ==
  CHOOSE i \in 1..Len(Heads) :
    Heads[i] = <<LPAREN>> \o Tok(PublicKeyTag) \o <<LPAREN>> \o Tok(RsaTag)
Tails == << <<RPAREN, RPAREN>>, <<RPAREN>>, <<>>, <<RPAREN, RPAREN, RPAREN>> >>
ProperTail == CHOOSE i \in 1..Len(Tails) : Tails[i] = <<RPAREN, RPAREN>>
HeadTailSibs == {<<1, 2>>, <<2, 1>>, <<>>}

KeyBytes(in) ==
  Heads[in.head]
  \o Concat([i \in 1..Len(in.sibs) |-> Shapes[in.sibs[i]].bytes])
  \o Tails[in.tail]

KeyInputs ==
  {[family |-> "key", head |-> ProperHead, sibs |-> ss, tail |-> ProperTail] :
     ss \in SibLists}
  \cup {[family |-> "key", head |-> hd, sibs |-> ss, tail |-> tl] :
          hd \in 1..Len(Heads), ss \in HeadTailSibs, tl \in 1..Len(Tails)}

\* sig-val inputs: "(7:sig-val", an algorithm-parameter list, and a rest
Name(k) == [i \in 1..k |-> 97 + (i % 26)]
HashElem(name) == Lst(Tok(HashTag) \o Tok(name)) \o <<RPAREN>>
SigHeads == << <<LPAREN>> \o Tok(SigValTag),
               <<LPAREN>> \o Tok(<<101, 110, 99, 45, 118, 97, 108>>) >>
Params == <<
  [wf |-> TRUE,  bytes |-> Lst(Tok(RsaTag) \o Lst(Tok(<<115>>) \o Tok(<<97, 98, 99>>)))],
  [wf |-> TRUE,  bytes |-> Lst(Tok(<<100, 115, 97>>) \o Lst(Tok(<<114>>) \o Tok(<<40>>))
                               \o Lst(Tok(<<115>>) \o Tok(<<41, 41>>)))],
  [wf |-> TRUE,  bytes |-> Lst(<<>>)],
  [wf |-> TRUE,  bytes |-> Lst(Tok(RsaTag) \o Lst(Tok(<<115>>) \o Lst(Tok(<<97>>) \o Lst(Tok(<<98>>)))))],
  [wf |-> FALSE, bytes |-> <<LPAREN>> \o Tok(RsaTag)],
  [wf |-> FALSE, bytes |-> <<LPAREN, 57, COLON, 97, RPAREN>>] >>
Rests == <<
  [kind |-> "close",   name |-> <<>>,                bytes |-> <<RPAREN>>],
  [kind |-> "hash",    name |-> NameMd5,             bytes |-> HashElem(NameMd5)],
  [kind |-> "hash",    name |-> NameSha1,            bytes |-> HashElem(NameSha1)],
  [kind |-> "hash",    name |-> <<120, 121, 122>>,   bytes |-> HashElem(<<120, 121, 122>>)],
  [kind |-> "hash",    name |-> <<109, 100, 53, 0, 120>>,
                       bytes |-> HashElem(<<109, 100, 53, 0, 120>>)],
  [kind |-> "hash",    name |-> Name(BufferSize - 2), bytes |-> HashElem(Name(BufferSize - 2))],
  [kind |-> "hash",    name |-> Name(BufferSize - 1), bytes |-> HashElem(Name(BufferSize - 1))],
  [kind |-> "hash",    name |-> Name(BufferSize),     bytes |-> HashElem(Name(BufferSize))],
  [kind |-> "other",   name |-> NameMd5,
                       bytes |-> Lst(Tok(<<104, 97, 115, 104, 50>>) \o Tok(NameMd5)) \o <<RPAREN>>],
  [kind |-> "noname",  name |-> <<>>,                bytes |-> Lst(Tok(HashTag)) \o <<RPAREN>>],
  [kind |-> "token",   name |-> NameMd5,             bytes |-> Tok(NameMd5) \o <<RPAREN>>],
  [kind |-> "cut",     name |-> <<>>,                bytes |-> <<>>],
  [kind |-> "cut",     name |-> NameMd5,
                       bytes |-> <<LPAREN>> \o Tok(HashTag) \o <<57, COLON>> \o NameMd5],
  [kind |-> "cut",     name |-> <<>>,
                       bytes |-> <<LPAREN>> \o Tok(HashTag) \o <<49>>],
  [kind |-> "cut",     name |-> <<>>,                bytes |-> <<LPAREN>>] >>
SigvalBytes(in) == SigHeads[in.head] \o Params[in.params].bytes \o Rests[in.rest].bytes
SigvalInputs ==
  {[family |-> "sigval", head |-> hd, params |-> pa, rest |-> re] :
     hd \in 1..Len(SigHeads), pa \in 1..Len(Params), re \in 1..Len(Rests)}
\* what may lie behind a buffer
Junks == {<<>>, <<RPAREN>>, HashElem(NameMd5), <<49, 58, 120, 0>>}

\* simple expressions for the comparator
Simples == {
  NullPtr,
  Lst(Tok(<<102, 111, 111>>)),
  Lst(Tok(<<102, 111, 120>>)),
  Lst(Tok(<<102, 111>>)),
  <<LPAREN>> \o Tok(<<102, 111>>),
  <<LPAREN, 51, COLON, 102>>,
  <<LPAREN, 57, COLON, 102, 111, 111, RPAREN>>,
  <<LPAREN, 48, COLON, RPAREN>>,
  <<LPAREN, 51>>,
  <<LPAREN, 51, 102, 111, 111, RPAREN>>,
  Tok(<<102, 111, 111>>) \o <<RPAREN>>,
  <<>> }

\* token soup: "(" and then up to MaxItems items
Items == << <<LPAREN>>, <<RPAREN>>, Tok(PublicKeyTag), Tok(RsaTag), Tok(SigValTag),
            Tok(<<97, 98, 99>>) >>
IsTokenItem(i) == Items[i] \notin {<<LPAREN>>, <<RPAREN>>}
MaxItems == 4
SoupBytes(in) == <<LPAREN>> \o Concat([i \in 1..Len(in.items) |-> Items[in.items[i]]])
SoupInputs ==
  {[family |-> "soup", items |-> it] :
     it \in UNION {[1..k -> 1..Len(Items)] : k \in 0..MaxItems}}

\* buffers for the bridge functions
BridgeBuffers == {
  Lst(Tok(<<97, 98, 99>>)),
  <<LPAREN>> \o Tok(<<97, 98, 99>>),
  Lst(Tok(<<97, 98, 99>>)) \o <<RPAREN, 0>>,
  KeyBytes([head |-> ProperHead, sibs |-> <<1, 2>>, tail |-> ProperTail]),
  <<>> }

----------------------------------------------------------------------------
(* The state machine *)

Idle == [returned |-> FALSE]
NoInput == [family |-> "none"]

\* a caller holding a modulus and an exponent builds the key and reads it back
InitRoundTrip ==
  /\ op = "roundtrip"
  /\ pc = "build"
  /\ input = [family |-> "roundtrip"]
  /\ \/ m_arg \in Mpis(MaxBody) /\ e_arg \in Mpis(MaxShort)
     \/ m_arg \in Mpis(MaxShort) /\ e_arg \in Mpis(MaxBody)
  /\ built = NoBuffer
  /\ keydata = <<>>
  /\ b_orig = <<>>
  /\ junk = <<>>
  /\ x = Idle
  /\ h = Idle
  /\ g = Idle

\* a caller hands a received key to get_rsa_pk_from_canon_sexp
InitKey ==
  /\ op = "get_rsa_pk_from_canon_sexp"
  /\ pc = "header"
  /\ input \in KeyInputs
  /\ m_arg = <<>>
  /\ e_arg = <<>>
  /\ built = NoBuffer
  /\ keydata = KeyBytes(input)
  /\ b_orig = <<>>
  /\ junk = <<>>
  /\ x = Idle
  /\ h = Idle
  /\ g = Idle

\* make_canon_sexp_from_rsa_pk (m, mlen, e, elen, &len)
Build ==
  /\ pc = "build"
  /\ \/ built' = make_canon_sexp_from_rsa_pk(m_arg, e_arg) /\ pc' = "built"
     \/ built' = NoBuffer /\ pc' = "done"
  /\ UNCHANGED <<op, input, m_arg, e_arg, keydata, b_orig, junk, x, h, g>>

\* the caller passes (keybuf, len) on to get_rsa_pk_from_canon_sexp
CallExtractor ==
  /\ pc = "built"
  /\ keydata' = Bytes(built.keybuf, 1, built.r_len)
  /\ pc' = "header"
  /\ UNCHANGED <<op, input, m_arg, e_arg, built, b_orig, junk, x, h, g>>

Header ==
  /\ pc = "header"
  /\ x' = ExtractHeader(keydata, ExtractEntry(keydata))
  /\ pc' = IF x'.returned THEN "done" ELSE "loop"
  /\ UNCHANGED <<op, input, m_arg, e_arg, built, keydata, b_orig, junk, h, g>>

Sibling ==
  /\ pc = "loop"
  /\ LET r == ExtractSibling(keydata, x)
     IN /\ x' = r.c
        /\ pc' = IF r.looping THEN "loop"
                 ELSE IF r.c.returned THEN "done" ELSE "after"
  /\ UNCHANGED <<op, input, m_arg, e_arg, built, keydata, b_orig, junk, h, g>>

Finish ==
  /\ pc = "after"
  /\ x' = ExtractFinish(x)
  /\ pc' = "done"
  /\ UNCHANGED <<op, input, m_arg, e_arg, built, keydata, b_orig, junk, h, g>>


\* hash_algo_from_sigval (sigval)
HashAlgoFromSigval ==
  /\ op = "hash_algo_from_sigval" /\ pc = "call"
  /\ h' = hash_algo_from_sigval(keydata \o junk)
  /\ pc' = "done"
  /\ UNCHANGED <<op, input, m_arg, e_arg, built, keydata, b_orig, junk, x, g>>

\* cmp_simple_canon_sexp (a, b); log_bug ends the process
CmpSimpleCanonSexp ==
  /\ op = "cmp_simple_canon_sexp" /\ pc = "call"
  /\ h' = cmp_simple_canon_sexp(keydata, b_orig, junk)
  /\ pc' = IF h'.aborted THEN "aborted" ELSE "done"
  /\ UNCHANGED <<op, input, m_arg, e_arg, built, keydata, b_orig, junk, x, g>>

NextExtract == Header \/ Sibling \/ Finish

Quiet ==
  /\ m_arg = <<>>
  /\ e_arg = <<>>
  /\ built = NoBuffer
  /\ x = Idle
  /\ h = Idle

\* a sig-val is handed to hash_algo_from_sigval
InitSigval ==
  /\ op = "hash_algo_from_sigval"
  /\ pc = "call"
  /\ input \in SigvalInputs
  /\ keydata = SigvalBytes(input)
  /\ b_orig = <<>>
  /\ junk \in Junks
  /\ g = Idle
  /\ Quiet

\* two expressions are compared
InitCmp ==
  /\ op = "cmp_simple_canon_sexp"
  /\ pc = "call"
  /\ input = NoInput
  /\ keydata \in Simples
  /\ b_orig \in Simples
  /\ junk \in Junks
  /\ g = Idle
  /\ Quiet

\* one of the bridge functions is called
InitBridge ==
  /\ op \in {"keygrip_from_canon_sexp", "canon_sexp_to_string",
             "get_pk_algo_from_canon_sexp", "get_pk_algo_from_key"}
  /\ pc = "call"
  /\ input = NoInput
  /\ keydata \in IF op = "get_pk_algo_from_key" THEN {<<>>} ELSE BridgeBuffers
  /\ b_orig = <<>>
  /\ junk = <<>>
  /\ \E grip \in IF op = "keygrip_from_canon_sexp" THEN BOOLEAN ELSE {TRUE} :
       g = BridgeEntry(grip, IF op = "get_pk_algo_from_key" THEN "key" ELSE NoHandle)
  /\ Quiet

\* the same bytes are handed to each entry point that parses
InitSoup ==
  /\ op \in {"get_rsa_pk_from_canon_sexp", "hash_algo_from_sigval",
             "keygrip_from_canon_sexp"}
  /\ pc = IF op = "get_rsa_pk_from_canon_sexp" THEN "header" ELSE "call"
  /\ input \in SoupInputs
  /\ keydata = SoupBytes(input)
  /\ b_orig = <<>>
  /\ junk \in IF op = "hash_algo_from_sigval" THEN Junks ELSE {<<>>}
  /\ \E grip \in IF op = "keygrip_from_canon_sexp" THEN BOOLEAN ELSE {TRUE} :
       g = IF op = "keygrip_from_canon_sexp" THEN BridgeEntry(grip, NoHandle) ELSE Idle
  /\ Quiet

InitPointer == InitSigval \/ InitCmp
NextPointer == HashAlgoFromSigval \/ CmpSimpleCanonSexp
SpecPointer == InitPointer /\ [][NextPointer]_vars
SpecBridge == InitBridge /\ [][NextBridge]_vars
Next == NextExtract \/ HashAlgoFromSigval \/ NextKeygrip
Spec == InitSoup /\ [][Next]_vars
NextRoundTrip == Build \/ CallExtractor \/ NextExtract
SpecRoundTrip == InitRoundTrip /\ [][NextRoundTrip]_vars
SpecKey == InitKey /\ [][NextExtract]_vars

----------------------------------------------------------------------------
(* Statements about the builder and the extractor *)

\* the canonical MPI rule of the specification, written out on its own
RECURSIVE StripZeros(_)
StripZeros(v) == IF v # <<>> /\ v[1] = 0 THEN StripZeros(Tail(v)) ELSE v
Canonicalize(v) ==
  LET t == StripZeros(v)
  IN IF t = <<>> \/ t[1] >= 128 THEN <<0>> \o t ELSE t

\* "(10:public-key(3:rsa(1:n", ")(1:e", ")))"
Frame1 == <<40, 49, 48, 58, 112, 117, 98, 108, 105, 99, 45, 107, 101, 121,
            40, 51, 58, 114, 115, 97, 40, 49, 58, 110>>
Frame2 == <<41, 40, 49, 58, 101>>
Frame3 == <<41, 41, 41>>
Framed(v) == Decimal(Len(v)) \o <<58>> \o v

RoundTripDone == op = "roundtrip" /\ pc = "done" /\ built.ok

\* C1 as stated: the round trip succeeds and returns n = canonicalize(m) and
\* e = canonicalize(e) for every pair of MPI byte strings.
C1_RoundTripCanonical ==
  RoundTripDone =>
    ExtractResult(keydata, x) =
      [ret |-> GPG_ERR_NO_ERROR, n |-> Canonicalize(m_arg), e |-> Canonicalize(e_arg)]

\* C1 as amended: when both m and e hold a non-zero byte the round trip
\* succeeds and returns m and e with all leading zero bytes stripped (the
\* sign byte the builder adds is stripped again); when m or e is empty or
\* all zero it fails with GPG_ERR_BAD_PUBKEY and returns nothing.
C1_RoundTripStripped ==
  RoundTripDone =>
    ExtractResult(keydata, x) =
      IF StripZeros(m_arg) # <<>> /\ StripZeros(e_arg) # <<>>
        THEN [ret |-> GPG_ERR_NO_ERROR, n |-> StripZeros(m_arg), e |-> StripZeros(e_arg)]
        ELSE [ret |-> GPG_ERR_BAD_PUBKEY, n |-> <<>>, e |-> <<>>]

\* a round trip of a modulus with leading zeros, a high first byte and a
\* two-digit length, which the builder padded and the extractor stripped
C1_Witness ==
  /\ RoundTripDone
  /\ x.ret = GPG_ERR_NO_ERROR
  /\ Len(m_arg) >= 10 /\ m_arg[1] = 0
  /\ Len(Canonicalize(m_arg)) > Len(StripZeros(m_arg))
  /\ Len(StripZeros(m_arg)) >= 10
  /\ x.r_nlen = Len(StripZeros(m_arg))

\* C7: the builder returns exactly "(10:public-key(3:rsa(1:n" L(m') m'
\* ")(1:e" L(e') e' ")))" with m', e' the canonicalized inputs, reports its
\* length through r_len, and writes no byte outside the allocation (whenever
\* the allocation succeeded).
C7_BuilderExact ==
  (op = "roundtrip" /\ pc # "build" /\ built.ok) =>
    /\ built.keybuf = Frame1 \o Framed(Canonicalize(m_arg))
                      \o Frame2 \o Framed(Canonicalize(e_arg)) \o Frame3
    /\ built.r_len = Len(built.keybuf)
    /\ built.hi <= built.alloc

\* the builder has framed a zero exponent and a ten-byte modulus that lost
\* leading zeros and gained the sign byte
C7_Witness ==
  /\ op = "roundtrip" /\ pc = "built" /\ built.ok
  /\ StripZeros(e_arg) = <<>>
  /\ Len(m_arg) > Len(StripZeros(m_arg))
  /\ Len(Canonicalize(m_arg)) = 10
  /\ Canonicalize(m_arg)[1] = 0

KeyDone == op = "get_rsa_pk_from_canon_sexp" /\ pc = "done"
WellFormedKey == input.head = ProperHead /\ input.tail = ProperTail

\* C2: on a well-formed key, whenever the extractor has skipped to the end
\* of a sibling list, the depth is the depth from before that list's opening
\* parenthesis was consumed.
C2_DepthRestored ==
  (op = "get_rsa_pk_from_canon_sexp" /\ WellFormedKey /\ x.returned = FALSE
     /\ pc = "loop" /\ x.skipped)
    => x.depth = x.open_depth

Count(ss, P(_)) == Cardinality({i \in 1..Len(ss) : P(Shapes[ss[i]])})
IsN(sh) == sh.name = <<NameN>>
IsE(sh) == sh.name = <<NameE>>
IsWanted(sh) == sh.name = <<NameN>> \/ sh.name = <<NameE>>
RECURSIVE OnlyWanted(_)
OnlyWanted(ss) ==
  IF ss = <<>> THEN <<>>
  ELSE IF IsWanted(Shapes[Head(ss)]) THEN <<Head(ss)>> \o OnlyWanted(Tail(ss))
  ELSE OnlyWanted(Tail(ss))

\* one (n N), one (e E) with non-zero data tokens, every other sibling named
OneNOneE ==
  /\ WellFormedKey
  /\ Count(input.sibs, IsN) = 1 /\ Count(input.sibs, IsE) = 1
  /\ \A i \in 1..Len(input.sibs) :
       LET sh == Shapes[input.sibs[i]]
       IN /\ sh.name # <<>>
          /\ IsWanted(sh) => (sh.kind = "tok" /\ StripZeros(sh.value) # <<>>)

\* C3: with one (n N) and one (e E), the other siblings change nothing: the
\* call succeeds and returns what it returns with the other siblings removed.
C3_OthersIgnored ==
  (KeyDone /\ OneNOneE) =>
    LET bare == KeyBytes([input EXCEPT !.sibs = OnlyWanted(input.sibs)])
    IN /\ x.ret = GPG_ERR_NO_ERROR
       /\ ExtractResult(keydata, x)
            = ExtractResult(bare, get_rsa_pk_from_canon_sexp(bare))

\* C5: the extractor succeeds only behind "(", "public-key", "(", "rsa": no
\* input that lacks either opening parenthesis or either tag is accepted.
C5_OuterShape ==
  KeyDone => (x.ret = GPG_ERR_NO_ERROR => input.head = ProperHead)

\* C6: a key in which n (or e) names two or more siblings is never accepted
\* (it is to fail with GPG_ERR_DUP_VALUE).
C6_DuplicateNeverAccepted ==
  (KeyDone /\ WellFormedKey
     /\ (Count(input.sibs, IsN) >= 2 \/ Count(input.sibs, IsE) >= 2))
    => x.ret # GPG_ERR_NO_ERROR

----------------------------------------------------------------------------
(* Statements about the functions that take a bare pointer *)

\* C4: no byte at or beyond the end of a buffer is read.
C4_NoReadPastEnd ==
  (op \in {"hash_algo_from_sigval", "cmp_simple_canon_sexp"} /\ h.returned) =>
    /\ h.hi <= Len(keydata)
    /\ op = "cmp_simple_canon_sexp" => h.hi_b <= Len(b_orig)

\* a sig-val with a well-formed parameter list and a rest that lies inside
\* the buffer
SigvalDone ==
  /\ op = "hash_algo_from_sigval" /\ pc = "done"
  /\ input.family = "sigval" /\ input.head = 1
  /\ Params[input.params].wf
  /\ Rests[input.rest].kind # "cut"
HashName == Rests[input.rest].name
IsHashElem == Rests[input.rest].kind = "hash"

\* C8 as stated: (a) the registry's identifier for a (hash NAME) whose NAME
\* fits, (b) 0 when no (hash ...) follows, (c) an error that differs from
\* "none" when NAME is too long for the 50-byte buffer.
C8_TooLongIsDistinct ==
  SigvalDone =>
    /\ (IsHashElem /\ Len(HashName) <= BufferSize - 2)
         => h.ret = gcry_md_map_name(CString(HashName))
    /\ ~IsHashElem => h.ret = 0
    /\ (IsHashElem /\ Len(HashName) >= BufferSize) => h.ret # 0

\* C8 as amended: (a) for a NAME of 1 to 48 bytes the registry is asked for
\* NAME (as a C string) and its answer returned, (b) 0 when what follows is
\* no (hash NAME) element, (c) 0 as well, and the registry not asked, when
\* NAME has 49 bytes or more: too long a name is not told apart from "none".
C8_TooLongIsNone ==
  SigvalDone =>
    LET fits == IsHashElem /\ Len(HashName) >= 1 /\ Len(HashName) <= BufferSize - 2
    IN /\ h.asked = fits
       /\ fits => (h.buffer = CString(HashName) /\ h.ret = gcry_md_map_name(CString(HashName)))
       /\ ~fits => h.ret = 0

\* a NAME of 49 bytes was turned down with 0
C8_Witness ==
  /\ SigvalDone /\ IsHashElem
  /\ Len(HashName) = BufferSize - 1
  /\ h.ret = 0 /\ ~h.asked

----------------------------------------------------------------------------
(* Statements about unterminated input *)

\* "(" and then one or more data tokens, and the end of the buffer
Unterminated ==
  /\ input.family = "soup"
  /\ input.items # <<>>
  /\ \A i \in 1..Len(input.items) : IsTokenItem(input.items[i])
ItemIs(i, tag) == Items[input.items[i]] = Tok(tag)

\* C9 as stated: every entry point fails with MalformedSexp
\* (GPG_ERR_INV_SEXP); hash_algo_from_sigval has no such result at all.
C9_AlwaysMalformed ==
  (Unterminated /\ pc = "done") =>
    /\ op = "get_rsa_pk_from_canon_sexp" => x.ret = GPG_ERR_INV_SEXP
    /\ op = "hash_algo_from_sigval" => FALSE
    /\ op = "keygrip_from_canon_sexp" => g.err = GPG_ERR_INV_SEXP

\* C9 as amended: no entry point accepts such input, but each reports it in
\* its own way.  The extractor checks the tags first: GPG_ERR_BAD_PUBKEY
\* when the first token is not "public-key" (so for "(3:abc"),
\* GPG_ERR_WRONG_PUBKEY_ALGO when the third is not "rsa",
\* GPG_ERR_UNKNOWN_SEXP when a token follows "rsa", and GPG_ERR_INV_SEXP
\* only when the buffer ends before such a check fails.
\* hash_algo_from_sigval returns 0 (whenever the first token is not
\* "sig-val" or a second token follows; for "(7:sig-val" alone it reads the
\* byte behind the buffer).  keygrip_from_canon_sexp returns the scanner's
\* error, or GPG_ERR_INV_VALUE when grip is NULL.
C9_Unterminated ==
  (Unterminated /\ pc = "done") =>
    LET k == Len(input.items) IN
    /\ op = "get_rsa_pk_from_canon_sexp" =>
         x.ret = IF ~ItemIs(1, PublicKeyTag) THEN GPG_ERR_BAD_PUBKEY
                 ELSE IF k < 3 THEN GPG_ERR_INV_SEXP
                 ELSE IF ~ItemIs(3, RsaTag) THEN GPG_ERR_WRONG_PUBKEY_ALGO
                 ELSE IF k = 3 THEN GPG_ERR_INV_SEXP
                 ELSE GPG_ERR_UNKNOWN_SEXP
    /\ (op = "hash_algo_from_sigval" /\ (~ItemIs(1, SigValTag) \/ k >= 2)) =>
         (h.ret = 0 /\ h.hi <= Len(keydata))
    /\ (op = "hash_algo_from_sigval" /\ ItemIs(1, SigValTag) /\ k = 1) =>
         h.hi > Len(keydata)
    /\ op = "keygrip_from_canon_sexp" =>
         (/\ g.acquired = {}
          /\ g.err = IF g.grip THEN InvalidSexp ELSE GPG_ERR_INV_VALUE)

\* "(3:abc" was handed to the extractor, which answered GPG_ERR_BAD_PUBKEY
C9_Witness ==
  /\ Unterminated /\ pc = "done"
  /\ op = "get_rsa_pk_from_canon_sexp"
  /\ keydata = <<40, 51, 58, 97, 98, 99>>
  /\ x.ret = GPG_ERR_BAD_PUBKEY

----------------------------------------------------------------------------
(* Statements about the bridge *)

BridgeOps == {"keygrip_from_canon_sexp", "canon_sexp_to_string",
              "get_pk_algo_from_canon_sexp", "get_pk_algo_from_key"}

\* C10: no handle is released that the call did not acquire, none is
\* released twice, and when the call returns every acquired handle has been
\* released; the caller's key is not released.
C10_HandlesReleasedOnce ==
  op \in BridgeOps =>
    /\ g.rel["key"] = 0
    /\ \A hnd \in Handles :
         /\ g.rel[hnd] <= 1
         /\ g.rel[hnd] = 1 => hnd \in g.acquired
         /\ (g.returned /\ hnd \in g.acquired) => g.rel[hnd] = 1

\* get_pk_algo_from_canon_sexp has returned EdDSA after acquiring and
\* releasing the scanned expression, the algorithm list and the flags list
C10_Witness ==
  /\ op = "get_pk_algo_from_canon_sexp" /\ g.returned
  /\ g.acquired = {"sexp", "list", "l1"}
  /\ g.algo = GCRY_PK_EDDSA
  /\ \A hnd \in g.acquired : g.rel[hnd] = 1

----------------------------------------------------------------------------
(* make_simple_sexp_from_hexstr *)

\* hexdigitp (s) of util.h: '0'..'9', 'A'..'F', 'a'..'f'
hexdigitp(c) ==
  \/ (c >= 48 /\ c <= 57)
  \/ (c >= 65 /\ c <= 70)
  \/ (c >= 97 /\ c <= 102)

\* xtoi_1 (p) of util.h:
\* *p <= '9' ? *p - '0' : *p <= 'F' ? *p - 'A' + 10 : *p - 'a' + 10
xtoi_1(c) ==
  IF c <= 57 THEN c - 48 ELSE IF c <= 70 THEN c - 65 + 10 ELSE c - 97 + 10

\* xtoi_2 (p) of util.h: xtoi_1 (p) * 16 + xtoi_1 (p + 1)
xtoi_2(c1, c2) == xtoi_1(c1) * 16 + xtoi_1(c2)

\* smklen (numbuf, sizeof numbuf, len, &numbuflen) of sexp-parse.h: the
\* decimal length and a colon; numbuflen counts the colon
smklen(value) == Decimal(value) \o <<COLON>>

\* for (n=0, s=line; hexdigitp (s); s++, n++) ;  the string ends with a NUL
RECURSIVE HexRun(_, _)
HexRun(line, s) ==
  IF s <= Len(line) /\ hexdigitp(line[s]) THEN 1 + HexRun(line, s + 1) ELSE 0

\* line 364: len = ((n+1) & ~0x01)/2
HalfRoundedDown(n) == n \div 2
HexLen(n) == ((n + 1) - ((n + 1) % 2)) \div 2

\* lines 378-379: for (; n > 1; n -= 2, s += 2) *p++ = xtoi_2 (s);
RECURSIVE HexPairs(_, _, _)
HexPairs(line, s, n) ==
  IF n > 1 THEN <<xtoi_2(line[s], line[s + 1])>> \o HexPairs(line, s + 2, n - 2)
  ELSE <<>>

\* what the caller receives: buf (is_null: NULL), *nscanned when the caller
\* passed a place for it ("unset" otherwise), the size of the allocation
\* and the highest offset written
HexOut(null, bytes, scanned, alloc, hi) ==
  [returned |-> TRUE, is_null |-> null, buf |-> bytes, nscanned |-> scanned,
   alloc |-> alloc, hi |-> hi]

make_simple_sexp_from_hexstr(line, want_nscanned, malloc_ok) ==
  LET n == HexRun(line, 1)
      scanned == IF want_nscanned THEN <<n>> ELSE <<>>
  IN IF n = 0 THEN HexOut(TRUE, <<>>, scanned, 0, 0) ELSE
     LET len == HexLen(n)
         numbufp == smklen(len)
         alloc == 1 + Len(numbufp) + len + 1 + 1
     IN IF ~malloc_ok THEN HexOut(TRUE, <<>>, scanned, 0, 0) ELSE
        LET w0 == Memcpy([bytes |-> <<>>, hi |-> 0], <<LPAREN>>)
            w1 == Stpcpy(w0, numbufp)
            w2 == IF n % 2 = 1 THEN Memcpy(w1, <<xtoi_1(line[1])>>) ELSE w1
            s == IF n % 2 = 1 THEN 2 ELSE 1
            w3 == Memcpy(w2, HexPairs(line, s, n - (s - 1)))
            w4 == Memcpy(w3, <<RPAREN>>)
            \* *p = 0
            hi == Max(w4.hi, Len(w4.bytes) + 1)
        IN HexOut(FALSE, w4.bytes, scanned, alloc, hi)

\* the strings handed in: every string of up to MaxHex characters of
\* HexAlphabet, and runs of up to MaxRun digits with something behind
MaxHex == 4
MaxRun == 21
\* '/', '0', '9', ':', '@', 'A', 'F', 'G', '`', 'a', 'f', 'g', '!'
HexAlphabet == {47, 48, 57, 58, 64, 65, 70, 71, 96, 97, 102, 103, 33}
HexTails == {<<>>, <<33, 33>>, <<103, 49>>}
HexLines ==
  UNION {[1..k -> HexAlphabet] : k \in 0..MaxHex}
  \cup {[i \in 1..k |-> d] \o t : k \in 0..MaxRun, d \in {49, 102, 65}, t \in HexTails}

InitHex ==
  /\ op = "make_simple_sexp_from_hexstr"
  /\ pc = "call"
  /\ \E want \in BOOLEAN : input = [family |-> "hex", want_nscanned |-> want]
  /\ keydata \in HexLines
  /\ b_orig = <<>>
  /\ junk = <<>>
  /\ g = Idle
  /\ Quiet

\* make_simple_sexp_from_hexstr (line, &n) or (line, NULL); xtrymalloc may
\* fail once there is something to allocate
MakeSimpleSexpFromHexstr ==
  /\ op = "make_simple_sexp_from_hexstr" /\ pc = "call"
  /\ \/ h' = make_simple_sexp_from_hexstr(keydata, input.want_nscanned, TRUE)
     \/ /\ HexRun(keydata, 1) > 0
        /\ h' = make_simple_sexp_from_hexstr(keydata, input.want_nscanned, FALSE)
  /\ pc' = "done"
  /\ UNCHANGED <<op, input, m_arg, e_arg, built, keydata, b_orig, junk, x, g>>

SpecHex == InitHex /\ [][MakeSimpleSexpFromHexstr]_vars

----------------------------------------------------------------------------
(* Statements about the hex import *)

\* the sixteen hex digits, in lower and in upper case
LowerHex == <<48, 49, 50, 51, 52, 53, 54, 55, 56, 57, 97, 98, 99, 100, 101, 102>>
UpperHex == <<48, 49, 50, 51, 52, 53, 54, 55, 56, 57, 65, 66, 67, 68, 69, 70>>
IsHexChar(c) == \E i \in 1..16 : LowerHex[i] = c \/ UpperHex[i] = c
Nibble(c) == (CHOOSE i \in 1..16 : LowerHex[i] = c \/ UpperHex[i] = c) - 1

\* the length of the longest run of hex digits at the front of a string
HexPrefix(line) ==
  CHOOSE n \in 0..Len(line) :
    /\ \A i \in 1..n : IsHexChar(line[i])
    /\ n < Len(line) => ~IsHexChar(line[n + 1])

\* the big-endian bytes of a run of hex digits, a zero nibble put in front
\* of an odd number of them
HexBytes(digits) ==
  LET nib == IF Len(digits) % 2 = 1 THEN <<48>> \o digits ELSE digits
  IN [j \in 1..(Len(nib) \div 2) |-> 16 * Nibble(nib[2 * j - 1]) + Nibble(nib[2 * j])]

HexDone == op = "make_simple_sexp_from_hexstr" /\ pc = "done"

\* C11: the scanned count is the length of the longest run of hex digits at
\* the front; with no digit NULL is returned; otherwise the result is
\* "(" decimal(ceil(n/2)) ":" bytes ")" with the big-endian value of the
\* digits (whenever the allocation succeeded; the count is stored when the
\* caller passed a place for it), written inside the allocation.
C11_HexImport ==
  HexDone =>
    LET n == HexPrefix(keydata)
        bytes == HexBytes(SubSeq(keydata, 1, n))
    IN /\ input.want_nscanned => h.nscanned = <<n>>
       /\ n = 0 => h.is_null
       /\ (n > 0 /\ ~h.is_null) =>
            /\ Len(bytes) = (n + 1) \div 2
            /\ h.buf = <<40>> \o Decimal(Len(bytes)) \o <<58>> \o bytes \o <<41>>
            /\ h.hi <= h.alloc

\* an odd number of digits in front of other characters was imported, the
\* first byte holding the lone first digit
C11_Witness ==
  /\ HexDone /\ ~h.is_null
  /\ h.nscanned = <<3>>
  /\ Len(keydata) > 3
  /\ keydata[1] = 102
  /\ h.buf = <<40, 50, 58, 15, 255, 41>>

====
